---- MODULE Spec2Model ----
(***************************************************************************)
(* Model of the application state machine of CHERISHED MEMORIES (App.tsx): *)
(* the three application states, the featured photo, the recent-photo      *)
(* history, the live photo collection with its ribbon-curve parameters,    *)
(* the persistent photo store, and the asynchronous load / upload /        *)
(* removal handlers, each split at its await; of the gesture controller    *)
(* (GestureController.tsx): camera and model start-up, the predictWebcam   *)
(* loop with its classification and debounce, and the effect cleanup; and  *)
(* of the particle families (Foliage, Ribbon, FairyLights,                 *)
(* OrbitingParticles): the per-frame progress lerp and the eased blend of  *)
(* the vertex shaders.                                                     *)
(***************************************************************************)
EXTENDS Integers, Sequences, FiniteSets, TLC

(* ------------------------------ bounds --------------------------------- *)
\* Photo ids ever created in a run of Spec (stored at start plus uploaded).
MaxPhotos == 3
\* Files chosen in one upload.
MaxFiles == 2
\* Photos in the store at start in SpecSel (no uploads or removals there).
SelPhotos == 6
\* Cap of the selection counter of SpecSel.
MaxSelCount == 6
\* Photos in the store at start in SpecCtl.
CtlPhotos == 1
\* Date.now() when the gesture controller mounts (any value above 150).
MountTime == 1000
\* Milliseconds of the gesture loop that SpecCtl follows after mounting.
MaxElapsed == 400
\* Fixed-point unit of a progress scalar: progress 1.0 is ProgressUnit.
ProgressUnit == 100
\* SpecScene stops stepping a family whose progress left
\* [-MaxOvershoot, ProgressUnit + MaxOvershoot].
MaxOvershoot == 20
\* Upload and removal handlers suspended at the same time in SpecRace.
MaxOverlap == 2
\* size.width of the canvas, in pixels
ViewportWidth == 300
\* |angularVelocity| a drag may build up, in hundredths
MaxVelocity == 10
\* |rotation.y| up to which frames are followed, in hundredths
MaxRotation == 100
\* |position| of a photo up to which frames are followed, in tenths
MaxPosition == 40

(* ------------------------- program constants --------------------------- *)
\* const MAX_HISTORY = 5
MAX_HISTORY == 5
\* useState<string | null>(null): the null featured-photo identifier
Null == 0
\* useState<{x, y} | null>(null): the null hand-rotation override
NoHand == <<>>
\* enum AppState
AppStates == {"CHAOS", "FORMED", "FOCUS"}
\* the gesture argument of handleGesture
Gestures == {"POINT", "OPEN", "FIST", "NONE"}
\* normalized hand positions (x, y) passed to handleHandMove (two samples)
HandSamples == {<<0, 1>>, <<1, 0>>}
\* results.landmarks is empty
NoLandmarks == <<>>
\* no frame has been classified yet (detectedGesture is a local of a frame)
Unclassified == "-"
\* fingertip-to-wrist distances are in hundredths: 0.25 is 25
\* isFist = tipsToWristAvg < 0.25
FistBelow == 25
\* isOpen = tipsToWristAvg > 0.45
OpenAbove == 45
\* isIndexExtended = dist(indexTip, wrist) > 0.35
IndexExtendedAbove == 35
\* areOthersCurled: dist(.., wrist) < 0.3
CurledBelow == 30
\* nowInMs - gestureDebounce.current > 150
DebounceMs == 150
\* lerp factor per second, in thousandths: delta * 0.8 and delta * 0.6
RateFast == 800
RateSlow == 600
\* the particle families that blend chaos and target positions by uProgress
Families == {"foliage", "ribbon", "fairyLights", "orbiting"}

VARIABLES
    appState,         \* useState<AppState>
    handRotation,     \* useState<{x,y} | null>: NoHand or <<x, y>>
    gestureStatus,    \* useState<string>
    photos,           \* useState<PhotoData[]>: sequence of [id, t]
    featuredPhotoId,  \* useState<string | null>
    recentPhotos,     \* recentPhotosRef.current
    db,               \* the IndexedDB object store 'photos'
    nextId,           \* next fresh photo id (ids are unique per file)
    loadPending,      \* loadPhotos is suspended at await getAllPhotosFromDB
    pending,          \* upload / removal handlers suspended at an await
    selCount,         \* observer: POINT selections made so far (SpecSel)
    lastSelected,     \* observer: the last five selected ids (SpecSel)
    loadOutcome,      \* observer: how the startup getAllPhotosFromDB ended
    active,           \* GestureController effect: let active
    videoRef,         \* videoRef.current is the mounted <video> element
    camera,           \* the MediaStream asked of getUserMedia
    srcObject,        \* videoRef.current.srcObject holds the stream
    dataLoaded,       \* the 'loadeddata' event has been delivered
    model,            \* initMediaPipe's position / handLandmarkerRef.current
    scheduled,        \* a requestAnimationFrame(predictWebcam) is pending
    lastGesture,      \* lastGesture.current
    gestureDebounce,  \* gestureDebounce.current
    nowInMs,          \* Date.now() at the latest predictWebcam call
    results,          \* landmarks of the latest detectForVideo, or NoLandmarks
    detectedGesture,  \* predictWebcam's detectedGesture for the latest frame
    progress,         \* uniforms.current.uProgress.value of each family
    particle,         \* one particle's attributes and the frame's sin term
    shaderOut,        \* per family: ease and pos of that particle after mix
    angularVelocity,  \* TreeGroup: angularVelocity.current, in hundredths
    isDragging,       \* TreeGroup: isDragging.current
    lastPointerX,     \* TreeGroup: lastPointerX.current, in pixels
    rotationY,        \* TreeGroup: groupRef.current.rotation.y, hundredths
    currentPositions, \* PhotosWithStrings: currentPositions.current, by id
    childScale        \* PhotosWithStrings: child.scale.x by id, in tenths

appVars == <<appState, handRotation, gestureStatus, photos, featuredPhotoId,
             recentPhotos>>
storeVars == <<db, nextId, loadPending, pending>>
obsVars == <<selCount, lastSelected>>
loopVars == <<active, videoRef, camera, srcObject, dataLoaded, model,
              scheduled>>
frameVars == <<lastGesture, gestureDebounce, nowInMs, results,
               detectedGesture>>
ctlVars == <<loopVars, frameVars>>
renderVars == <<particle, shaderOut>>
treeVars == <<angularVelocity, isDragging, lastPointerX, rotationY>>
photoVars == <<currentPositions, childScale>>
sceneVars == <<ctlVars, progress, renderVars, treeVars, photoVars>>
vars == <<appState, handRotation, gestureStatus, photos, featuredPhotoId,
          recentPhotos, db, nextId, loadPending, pending, selCount,
          lastSelected, loadOutcome, sceneVars>>

(* ---------------------- rotation controller constants ------------------ *)
\* angularVelocity.current += (deltaX / size.width) * 15
DragGain == 15
\* currentRotationY.current += angularVelocity.current * delta * 10
Amplification == 10
\* angularVelocity.current *= 0.95, in hundredths
DecayPercent == 95
\* Math.abs(angularVelocity.current) < 0.05, in hundredths
IdleEpsilon == 5
\* currentRotationY.current += delta * 0.1: hundredths of a radian per second
IdleDriftRate == 10
\* lerp(rotation.y, targetRotY, delta * 3)
HandRate == 3
\* Math.PI * 2, in hundredths of a radian
TwoPi == 628

(* -------------------------- photo view constants ----------------------- *)
\* targetScale = 3.0 of the featured photo, in tenths
FeaturedScale == 30
\* scale: 1.2 of generatePhotoPositions, in tenths
NormalScale == 12
\* child.scale.x > (targetScale * 0.9): the factor, in tenths
LockTenths == 9
\* currentPos.lerp(targetPos, delta * 6.0)
ApproachRate == 6
\* currentPos.lerp(targetPos, delta * 3.0)
MoveRate == 3
\* child.scale.lerp(..., delta * 4.0)
ScaleRate == 4

(* ------------------------------ helpers -------------------------------- *)
\* Array.prototype.includes
Includes(seq, x) == \E i \in 1..Len(seq) : seq[i] = x

\* photos.map(p => p.id)
Ids(ps) == [i \in 1..Len(ps) |-> ps[i].id]

\* Array.prototype.filter(x => x !== id) on a sequence of ids
Without(seq, id) == SelectSeq(seq, LAMBDA x : x # id)

NoDup(seq) == \A i, j \in 1..Len(seq) : i # j => seq[i] # seq[j]

\* The curve parameter t of the i-th (0-based) of n photos, as the exact
\* fraction <<numerator, denominator>> of 0.15 + (i / (n - 1)) * 0.7.
CurveParamOneBased(i, n) ==
    IF n > 1 THEN <<15 * (n - 1) + 70 * (i + 1), 100 * (n - 1)>>
    ELSE <<50, 100>>
CurveParam(i, n) ==
    IF n > 1 THEN <<15 * (n - 1) + 70 * i, 100 * (n - 1)>>
    ELSE <<50, 100>>

\* generatePhotoPositions(sourcePhotos, 14, 5): every photo's position is
\* computed from its rank among the photos passed in.
GeneratePhotoPositions(ids) ==
    [i \in 1..Len(ids) |-> [id |-> ids[i], t |-> CurveParam(i - 1, Len(ids))]]

(* --------------------------- photo selection --------------------------- *)
\* photos.filter(p => !recentPhotosRef.current.includes(p.id))
StrictCandidates(ps, hist) ==
    SelectSeq(ps, LAMBDA p : ~Includes(hist, p.id))

\* The candidate list of handleGesture('POINT').
CandidatesIgnoringHistory(ps, hist) == ps
CandidatesLastOnly(ps, hist) ==
    IF Len(ps) > 1 /\ Len(hist) > 0
    THEN SelectSeq(ps, LAMBDA p : p.id # hist[Len(hist)])
    ELSE ps
Candidates(ps, hist) ==
    IF Len(StrictCandidates(ps, hist)) > 0
    THEN StrictCandidates(ps, hist)
    ELSE IF Len(ps) > 1 /\ Len(hist) > 0
         THEN SelectSeq(ps, LAMBDA p : p.id # hist[Len(hist)])
         ELSE ps

\* newHistory = [...history, selectedId]; shift() when longer than MAX_HISTORY
PushHistoryNoEvict(hist, id) == Append(hist, id)
PushHistory(hist, id) ==
    LET newHistory == Append(hist, id)
    IN  IF Len(newHistory) > MAX_HISTORY THEN Tail(newHistory) ELSE newHistory

(* ------------------------------ Init ----------------------------------- *)
\* GestureController after its first render and effect: the refs at their
\* initial values, startWebcam suspended at await getUserMedia, initMediaPipe
\* suspended at await FilesetResolver.forVisionTasks.
InitController ==
    /\ active = TRUE
    /\ videoRef = TRUE
    /\ camera = "requesting"
    /\ srcObject = FALSE
    /\ dataLoaded = FALSE
    /\ model = "resolving"
    /\ scheduled = FALSE
    /\ lastGesture = "NONE"
    /\ gestureDebounce = 0
    /\ nowInMs = MountTime
    /\ results = NoLandmarks
    /\ detectedGesture = Unclassified

\* TreeGroup after its first render: useRef(0), useRef(0), useRef(false),
\* useRef(0), and the group's rotation of a new THREE.Group.
InitTree ==
    /\ angularVelocity = 0
    /\ lastPointerX = 0
    /\ isDragging = FALSE
    /\ rotationY = 0

\* PhotosWithStrings before any photo is rendered: new Map(), no children.
InitPhotos ==
    /\ currentPositions = <<>>
    /\ childScale = <<>>

\* After construction: CHAOS, nothing featured, empty collection and history,
\* loadPhotos started; the store holds the photos of earlier sessions.
\* The particle families after their first render: uProgress: { value: 0 },
\* nothing drawn yet.
InitScene ==
    /\ progress = [f \in Families |-> 0]
    /\ particle = [chaos |-> 0, target |-> 0, wave |-> 0]
    /\ shaderOut = [f \in Families |-> <<>>]

InitApp ==
    /\ appState = "CHAOS"
    /\ handRotation = NoHand
    /\ gestureStatus = "NONE"
    /\ photos = <<>>
    /\ featuredPhotoId = Null
    /\ recentPhotos = <<>>
    /\ pending = {}
    /\ selCount = 0
    /\ lastSelected = <<>>
    /\ loadOutcome = "none"
    /\ InitController
    /\ InitTree
    /\ InitPhotos

Init ==
    /\ InitApp
    /\ InitScene
    /\ \E k \in 0..MaxPhotos :
          /\ db = {[id |-> i, timestamp |-> i] : i \in 1..k}
          /\ nextId = k + 1
    /\ loadPending = TRUE

(* ----------------------------- gestures -------------------------------- *)
\* The POINT branch: the updater passed to setAppState.
PointSelect ==
    \E randomIdx \in 1..Len(Candidates(photos, recentPhotos)) :
        LET selectedId == Candidates(photos, recentPhotos)[randomIdx].id
        IN  /\ featuredPhotoId' = selectedId
            /\ handRotation' = NoHand
            /\ recentPhotos' = PushHistory(recentPhotos, selectedId)

HandlePointInAnyState ==
    /\ IF Len(photos) > 0
       THEN PointSelect
       ELSE UNCHANGED <<featuredPhotoId, handRotation, recentPhotos>>
    /\ appState' = "FOCUS"
HandlePoint ==
    IF appState # "FOCUS"
    THEN /\ IF Len(photos) > 0
            THEN PointSelect
            ELSE UNCHANGED <<featuredPhotoId, handRotation, recentPhotos>>
         /\ appState' = "FOCUS"
    ELSE UNCHANGED <<appState, featuredPhotoId, handRotation, recentPhotos>>

HandleOpenKeepsFeatured ==
    /\ appState' = "CHAOS"
    /\ UNCHANGED <<featuredPhotoId, handRotation, recentPhotos>>
HandleOpen ==
    /\ featuredPhotoId' = Null
    /\ appState' = "CHAOS"
    /\ UNCHANGED <<handRotation, recentPhotos>>

HandleFist ==
    /\ featuredPhotoId' = Null
    /\ appState' = "FORMED"
    /\ UNCHANGED <<handRotation, recentPhotos>>

\* handleGesture(gesture)
HandleGesture(gesture) ==
    /\ gestureStatus' = gesture
    /\ CASE gesture = "POINT" -> HandlePoint
         [] gesture = "OPEN"  -> HandleOpen
         [] gesture = "FIST"  -> HandleFist
         [] OTHER -> UNCHANGED <<appState, featuredPhotoId, handRotation,
                                 recentPhotos>>
    /\ UNCHANGED photos

\* handleHandMove(x, y)
HandleHandMove(x, y) ==
    /\ IF appState # "FOCUS"
       THEN handRotation' = <<x, y>>
       ELSE UNCHANGED handRotation
    /\ UNCHANGED <<appState, gestureStatus, photos, featuredPhotoId,
                   recentPhotos>>

\* The assemble / release button:
\* setAppState(prev => prev === CHAOS ? FORMED : CHAOS)
Toggle ==
    /\ appState' = IF appState = "CHAOS" THEN "FORMED" ELSE "CHAOS"
    /\ UNCHANGED <<handRotation, gestureStatus, photos, featuredPhotoId,
                   recentPhotos>>

(* ------------------------- persistent store ---------------------------- *)
\* The object store: records [id, timestamp], keyed by id.
InStore(store, id) == \E r \in store : r.id = id

\* Date.now() at a put: later than the timestamp of every stored record.
Now(store) ==
    IF store = {} THEN 1
    ELSE 1 + CHOOSE m \in {r.timestamp : r \in store} :
                 \A r \in store : r.timestamp <= m

\* savePhotoToDB(id, url, aspectRatio): store.put of a record stamped now
SavePhotoToDB(store, id) ==
    {r \in store : r.id # id} \cup {[id |-> id, timestamp |-> Now(store)]}

\* deletePhotoFromDB(id): store.delete
DeletePhotoFromDB(store, id) == {r \in store : r.id # id}

\* results.sort((a, b) => a.timestamp - b.timestamp), mapped to the ids
RECURSIVE SortByTimestamp(_)
SortByTimestamp(records) ==
    IF records = {} THEN <<>>
    ELSE LET first == CHOOSE r \in records :
                          \A q \in records : r.timestamp <= q.timestamp
         IN  <<first.id>> \o SortByTimestamp(records \ {first})

\* getAllPhotosFromDB(): the stored photos, oldest first
GetAllPhotosFromDB(store) == SortByTimestamp(store)

(* ------------------------------ startup -------------------------------- *)
\* A loadPhotos that takes the stored photos but leaves the state alone.
LoadPhotosKeepsState ==
    /\ loadPending
    /\ loadPending' = FALSE
    /\ photos' = GeneratePhotoPositions(GetAllPhotosFromDB(db))
    /\ UNCHANGED <<appState, handRotation, gestureStatus, featuredPhotoId,
                   recentPhotos, db, nextId, pending>>

\* loadPhotos resumes after await getAllPhotosFromDB() resolved.
LoadPhotosDone ==
    /\ loadPending
    /\ loadPending' = FALSE
    /\ LET savedPhotos == GetAllPhotosFromDB(db)
       IN  IF Len(savedPhotos) > 0
           THEN /\ photos' = GeneratePhotoPositions(savedPhotos)
                /\ appState' = "FORMED"
           ELSE UNCHANGED <<photos, appState>>
    /\ UNCHANGED <<handRotation, gestureStatus, featuredPhotoId, recentPhotos,
                   db, nextId, pending>>

\* getAllPhotosFromDB() rejected: the catch block only logs.
LoadPhotosFailed ==
    /\ loadPending
    /\ loadPending' = FALSE
    /\ UNCHANGED <<appVars, db, nextId, pending>>

(* ------------------------------- upload -------------------------------- *)
UploadOp(base, new) == [kind |-> "upload", id |-> Null, base |-> base, new |-> new]

RemoveOp(id, base) == [kind |-> "remove", id |-> id, base |-> base, new |-> <<>>]

\* The store after the puts of the files of `new` that are in `saved`, in
\* file order.
RECURSIVE SaveAll(_, _, _)
SaveAll(store, new, saved) ==
    IF new = <<>> THEN store
    ELSE SaveAll(IF Head(new) \in saved
                 THEN SavePhotoToDB(store, Head(new))
                 ELSE store,
                 Tail(new), saved)

\* handlePhotoUpload is called with n files: the handler of the current
\* render closes over `photos`; every file gets a fresh id and the handler
\* suspends at await Promise.all(...). At most `limit` handlers are suspended.
UploadStart(n, limit) ==
    /\ n > 0
    /\ nextId + n - 1 <= MaxPhotos
    /\ Cardinality(pending) < limit
    /\ pending' = pending \cup
          {UploadOp(Ids(photos), [i \in 1..n |-> nextId + i - 1])}
    /\ nextId' = nextId + n
    /\ UNCHANGED <<appVars, db, loadPending>>

\* Every savePhotoToDB resolved, Promise.all resolved: the rest of
\* handlePhotoUpload runs.
UploadDone(op) ==
    /\ op \in pending
    /\ op.kind = "upload"
    /\ db' = SaveAll(db, op.new, {op.new[i] : i \in 1..Len(op.new)})
    /\ LET allSourceData == op.base \o op.new
       IN  photos' = GeneratePhotoPositions(allSourceData)
    /\ appState' = "FORMED"
    /\ pending' = pending \ {op}
    /\ UNCHANGED <<handRotation, gestureStatus, featuredPhotoId, recentPhotos,
                   nextId, loadPending>>

\* Some savePhotoToDB rejected (the files in `saved` were stored, at least one
\* was not): Promise.all rejects and nothing after the await runs.
UploadRejected(op, saved) ==
    /\ op \in pending
    /\ op.kind = "upload"
    /\ saved \subseteq {op.new[i] : i \in 1..Len(op.new)}
    /\ saved # {op.new[i] : i \in 1..Len(op.new)}
    /\ db' = SaveAll(db, op.new, saved)
    /\ pending' = pending \ {op}
    /\ UNCHANGED <<appVars, nextId, loadPending>>

(* ------------------------------- removal ------------------------------- *)
\* handleRemovePhoto(id) is called from the thumbnail of a live photo and
\* suspends at await deletePhotoFromDB(id); it closes over `photos`.
RemoveStart(id, limit) ==
    /\ Includes(Ids(photos), id)
    /\ Cardinality(pending) < limit
    /\ pending' = pending \cup {RemoveOp(id, Ids(photos))}
    /\ UNCHANGED <<appVars, db, nextId, loadPending>>

\* The history after handleRemovePhoto(id)
PruneHistoryKeep(hist, id) == hist
PruneHistory(hist, id) == Without(hist, id)

\* deletePhotoFromDB resolved: the rest of handleRemovePhoto runs.
RemoveDone(op) ==
    /\ op \in pending
    /\ op.kind = "remove"
    /\ db' = DeletePhotoFromDB(db, op.id)
    /\ LET remainingSourceData == Without(op.base, op.id)
       IN  photos' = GeneratePhotoPositions(remainingSourceData)
    /\ recentPhotos' = PruneHistory(recentPhotos, op.id)
    /\ pending' = pending \ {op}
    /\ UNCHANGED <<appState, handRotation, gestureStatus, featuredPhotoId,
                   nextId, loadPending>>

\* deletePhotoFromDB rejected: the handler throws at the await.
RemoveFailed(op) ==
    /\ op \in pending
    /\ op.kind = "remove"
    /\ pending' = pending \ {op}
    /\ UNCHANGED <<appVars, db, nextId, loadPending>>

(* --------------------------- specifications ---------------------------- *)
\* predictWebcam calls onGesture(g) only when g differs from lastGesture,
\* the gesture it emitted last; gestureStatus holds that same gesture.
Emit(g) ==
    /\ g # gestureStatus
    /\ HandleGesture(g)

\* The application with its store: every handler, in any order, with one
\* upload or removal suspended at its await at a time (overlapping uploads
\* and removals are not part of this specification).
Next ==
    \/ \E g \in Gestures : Emit(g)
          /\ UNCHANGED <<storeVars, obsVars, loadOutcome, sceneVars>>
    \/ \E h \in HandSamples :
          HandleHandMove(h[1], h[2])
          /\ UNCHANGED <<storeVars, obsVars, loadOutcome, sceneVars>>
    \/ Toggle
          /\ UNCHANGED <<storeVars, obsVars, loadOutcome, sceneVars>>
    \/ LoadPhotosDone /\ loadOutcome' = "resolved"
          /\ UNCHANGED <<obsVars, sceneVars>>
    \/ LoadPhotosFailed /\ loadOutcome' = "rejected"
          /\ UNCHANGED <<obsVars, sceneVars>>
    \/ \E n \in 1..MaxFiles : UploadStart(n, 1)
          /\ UNCHANGED <<obsVars, loadOutcome, sceneVars>>
    \/ \E op \in pending : UploadDone(op)
          /\ UNCHANGED <<obsVars, loadOutcome, sceneVars>>
    \/ \E op \in pending, saved \in SUBSET (1..MaxPhotos) :
          UploadRejected(op, saved)
          /\ UNCHANGED <<obsVars, loadOutcome, sceneVars>>
    \/ \E id \in 1..MaxPhotos : RemoveStart(id, 1)
          /\ UNCHANGED <<obsVars, loadOutcome, sceneVars>>
    \/ \E op \in pending : RemoveDone(op)
          /\ UNCHANGED <<obsVars, loadOutcome, sceneVars>>
    \/ \E op \in pending : RemoveFailed(op)
          /\ UNCHANGED <<obsVars, loadOutcome, sceneVars>>

Spec == Init /\ [][Next]_vars

\* The same application over a larger store, without uploads and removals,
\* and with the POINT selections observed.
InitSel ==
    /\ InitApp
    /\ InitScene
    /\ \E k \in 0..SelPhotos :
          /\ db = {[id |-> i, timestamp |-> i] : i \in 1..k}
          /\ nextId = k + 1
    /\ loadPending = TRUE

\* A POINT received outside FOCUS with a non-empty collection makes a selection.
Selects(g) == g = "POINT" /\ appState # "FOCUS" /\ Len(photos) > 0

\* Records the selection a gesture made: its count (saturating at MaxSelCount)
\* and the newest five selected ids, oldest first.
Observe(g) ==
    IF Selects(g)
    THEN /\ selCount' = IF selCount < MaxSelCount THEN selCount + 1 ELSE selCount
         /\ lastSelected' =
               LET all == Append(lastSelected, featuredPhotoId')
               IN  IF Len(all) > 5 THEN SubSeq(all, 2, Len(all)) ELSE all
    ELSE UNCHANGED obsVars

NextSel ==
    \/ \E g \in Gestures : Emit(g) /\ Observe(g)
          /\ UNCHANGED <<storeVars, loadOutcome, sceneVars>>
    \/ \E h \in HandSamples :
          HandleHandMove(h[1], h[2])
          /\ UNCHANGED <<storeVars, obsVars, loadOutcome, sceneVars>>
    \/ Toggle
          /\ UNCHANGED <<storeVars, obsVars, loadOutcome, sceneVars>>
    \/ LoadPhotosDone /\ loadOutcome' = "resolved"
          /\ UNCHANGED <<obsVars, sceneVars>>
    \/ LoadPhotosFailed /\ loadOutcome' = "rejected"
          /\ UNCHANGED <<obsVars, sceneVars>>

SpecSel == InitSel /\ [][NextSel]_vars

\* Overlapping handlers: after the startup load has returned the stored
\* photos, uploads and removals are started while another one is still
\* suspended at its await (up to MaxOverlap at a time); every store request
\* succeeds.
NextRace ==
    \/ LoadPhotosDone /\ loadOutcome' = "resolved"
          /\ UNCHANGED <<obsVars, sceneVars>>
    \/ \E n \in 1..MaxFiles : ~loadPending /\ UploadStart(n, MaxOverlap)
          /\ UNCHANGED <<obsVars, loadOutcome, sceneVars>>
    \/ \E op \in pending : UploadDone(op)
          /\ UNCHANGED <<obsVars, loadOutcome, sceneVars>>
    \/ \E id \in 1..MaxPhotos : ~loadPending /\ RemoveStart(id, MaxOverlap)
          /\ UNCHANGED <<obsVars, loadOutcome, sceneVars>>
    \/ \E op \in pending : RemoveDone(op)
          /\ UNCHANGED <<obsVars, loadOutcome, sceneVars>>

SpecRace == Init /\ [][NextRace]_vars

(* -------------------------- gesture controller ------------------------- *)
\* Fingertip-to-wrist distances <<index, middle, ring, pinky>> of detected
\* hands, with the wrist landmark <<x, y>>: a fist, a pointing hand, an open
\* hand and a half-open hand.
HandPoses ==
    { [wrist |-> <<1, 1>>, tips |-> <<10, 10, 10, 10>>],
      [wrist |-> <<1, 1>>, tips |-> <<60, 20, 20, 20>>],
      [wrist |-> <<0, 0>>, tips |-> <<60, 60, 60, 60>>],
      [wrist |-> <<0, 0>>, tips |-> <<30, 30, 30, 30>>] }

\* Milliseconds between two calls of predictWebcam.
FrameGaps == {50, 100}

\* The classification that puts the POINT test before the FIST test.
DetectPointFirst(tips) ==
    LET sum == tips[1] + tips[2] + tips[3] + tips[4]
    IN  IF /\ tips[1] > IndexExtendedAbove
           /\ tips[2] < CurledBelow /\ tips[3] < CurledBelow
           /\ tips[4] < CurledBelow
        THEN "POINT"
        ELSE IF sum < 4 * FistBelow THEN "FIST"
        ELSE IF sum > 4 * OpenAbove THEN "OPEN"
        ELSE "NONE"

\* predictWebcam's classification of the four distances. tipsToWristAvg is
\* the sum divided by 4, so it is compared as sum against 4 * threshold.
DetectGesture(tips) ==
    LET tipsToWristSum == tips[1] + tips[2] + tips[3] + tips[4]
        isFist == tipsToWristSum < 4 * FistBelow
        isOpen == tipsToWristSum > 4 * OpenAbove
        isIndexExtended == tips[1] > IndexExtendedAbove
        areOthersCurled ==
            /\ tips[2] < CurledBelow
            /\ tips[3] < CurledBelow
            /\ tips[4] < CurledBelow
        isPointing == isIndexExtended /\ areOthersCurled
    IN  IF isFist THEN "FIST"
        ELSE IF isPointing THEN "POINT"
        ELSE IF isOpen THEN "OPEN"
        ELSE "NONE"

\* The debounce test that lets a gesture through at exactly 150 ms.
DebouncePassedAt(now) == now - gestureDebounce >= DebounceMs
\* nowInMs - gestureDebounce.current > 150
DebouncePassed(now) == now - gestureDebounce > DebounceMs

\* handleHandMove that ignores the application state.
MovedHandAlways(x, y) == <<x, y>>
\* The hand-rotation override after handleHandMove(x, y).
MovedHand(x, y) == IF appState # "FOCUS" THEN <<x, y>> ELSE handRotation

\* handleGesture(gesture) called in the frame in which handleHandMove left
\* the override `moved`: both updates are applied in one render, the
\* selection's setHandRotation(null) last.
HandleGestureAfterMove(gesture, moved) ==
    /\ gestureStatus' = gesture
    /\ IF gesture = "POINT" /\ appState # "FOCUS" /\ Len(photos) > 0
       THEN PointSelect /\ appState' = "FOCUS"
       ELSE /\ handRotation' = moved
            /\ appState' = CASE gesture = "POINT" -> "FOCUS"
                             [] gesture = "OPEN"  -> "CHAOS"
                             [] gesture = "FIST"  -> "FORMED"
                             [] OTHER -> appState
            /\ featuredPhotoId' = IF gesture \in {"OPEN", "FIST"}
                                  THEN Null
                                  ELSE featuredPhotoId
            /\ UNCHANGED recentPhotos
    /\ UNCHANGED photos

\* The part of predictWebcam that runs when detectForVideo returned the
\* landmarks of a hand at time `now`.
OnLandmarks(res, now) ==
    LET landmarks == res[1]
        currentX == 1 - landmarks.wrist[1]
        moved == MovedHand(currentX, landmarks.wrist[2])
        detected == DetectGesture(landmarks.tips)
    IN  /\ results' = res
        /\ detectedGesture' = detected
        /\ IF detected # lastGesture /\ DebouncePassed(now)
           THEN /\ lastGesture' = detected
                /\ gestureDebounce' = now
                /\ HandleGestureAfterMove(detected, moved)
           ELSE /\ handRotation' = moved
                /\ UNCHANGED <<lastGesture, gestureDebounce, appState,
                               gestureStatus, photos, featuredPhotoId,
                               recentPhotos>>

\* A call of predictWebcam that gets no landmarks: it returns early, or
\* detectForVideo throws, or results.landmarks is empty. No callback runs.
NothingDetected ==
    /\ results' = NoLandmarks
    /\ detectedGesture' = Unclassified
    /\ UNCHANGED <<appVars, lastGesture, gestureDebounce>>

\* predictWebcam that returns without a new request when detectForVideo
\* throws.
PredictWebcamEndsOnThrow(gap, throws, res) ==
    /\ nowInMs + gap <= MountTime + MaxElapsed
    /\ nowInMs' = nowInMs + gap
    /\ IF ~videoRef
       THEN /\ scheduled' = FALSE
            /\ NothingDetected
       ELSE /\ scheduled' = (model # "ready" \/ ~throws)
            /\ IF model # "ready" \/ throws \/ Len(res) = 0
               THEN NothingDetected
               ELSE OnLandmarks(res, nowInMs')
    /\ UNCHANGED <<active, videoRef, camera, srcObject, model>>

\* predictWebcam, called `gap` ms after the previous call; detectForVideo
\* throws or returns the landmarks `res`.
PredictWebcam(gap, throws, res) ==
    /\ nowInMs + gap <= MountTime + MaxElapsed
    /\ nowInMs' = nowInMs + gap
    /\ IF ~videoRef
       THEN /\ scheduled' = FALSE
            /\ NothingDetected
       ELSE /\ scheduled' = TRUE
            /\ IF model # "ready" \/ throws \/ Len(res) = 0
               THEN NothingDetected
               ELSE OnLandmarks(res, nowInMs')
    /\ UNCHANGED <<active, videoRef, camera, srcObject, model>>

\* The results.landmarks a detectForVideo can return: no hand or one hand.
Detections == {NoLandmarks} \cup {<<pose>> : pose \in HandPoses}

\* The video element fires 'loadeddata' once the stream delivers frames:
\* the listener added by startWebcam makes the first call of predictWebcam.
LoadedData(gap, throws, res) ==
    /\ srcObject
    /\ camera = "streaming"
    /\ ~dataLoaded
    /\ dataLoaded' = TRUE
    /\ PredictWebcam(gap, throws, res)

\* The browser runs the callback passed to requestAnimationFrame.
AnimationFrame(gap, throws, res) ==
    /\ scheduled
    /\ PredictWebcam(gap, throws, res)
    /\ UNCHANGED dataLoaded

\* startWebcam resumes after await getUserMedia resolved with a stream.
GetUserMediaResolved ==
    /\ camera = "requesting"
    /\ camera' = "streaming"
    /\ srcObject' = (active /\ videoRef)
    /\ UNCHANGED <<active, videoRef, dataLoaded, model, scheduled, frameVars>>

\* getUserMedia rejected: the catch block only logs.
GetUserMediaRejected ==
    /\ camera = "requesting"
    /\ camera' = "denied"
    /\ UNCHANGED <<active, videoRef, srcObject, dataLoaded, model, scheduled,
                   frameVars>>

\* initMediaPipe resumes after await FilesetResolver.forVisionTasks resolved.
VisionResolved ==
    /\ model = "resolving"
    /\ model' = IF active THEN "creating" ELSE "abandoned"
    /\ UNCHANGED <<active, videoRef, camera, srcObject, dataLoaded, scheduled,
                   frameVars>>

\* initMediaPipe resumes after await HandLandmarker.createFromOptions
\* resolved: handLandmarkerRef.current is set.
LandmarkerCreated ==
    /\ model = "creating"
    /\ model' = "ready"
    /\ UNCHANGED <<active, videoRef, camera, srcObject, dataLoaded, scheduled,
                   frameVars>>

\* A failure handler that starts the initialization again.
InitMediaPipeRetried ==
    /\ model \in {"resolving", "creating"}
    /\ model' = "resolving"
    /\ UNCHANGED <<active, videoRef, camera, srcObject, dataLoaded, scheduled,
                   frameVars>>

\* Either await of initMediaPipe rejected: the catch block only logs.
InitMediaPipeFailed ==
    /\ model \in {"resolving", "creating"}
    /\ model' = "failed"
    /\ UNCHANGED <<active, videoRef, camera, srcObject, dataLoaded, scheduled,
                   frameVars>>

\* The cleanup that does not stop the tracks.
CameraAfterCleanupKept == camera
\* videoRef.current.srcObject.getTracks().forEach(track => track.stop())
CameraAfterCleanup == IF videoRef /\ srcObject THEN "stopped" ELSE camera

\* The effect's cleanup, run when the component unmounts; the element is then
\* detached from videoRef.
Cleanup ==
    /\ active
    /\ active' = FALSE
    /\ scheduled' = FALSE
    /\ camera' = CameraAfterCleanup
    /\ videoRef' = FALSE
    /\ UNCHANGED <<srcObject, dataLoaded, model, frameVars>>

InitCtl ==
    /\ InitApp
    /\ InitScene
    /\ \E k \in 0..CtlPhotos :
          /\ db = {[id |-> i, timestamp |-> i] : i \in 1..k}
          /\ nextId = k + 1
    /\ loadPending = TRUE

\* The application driven by the gesture controller: gestures and hand
\* positions come from predictWebcam only; the application unmounts with the
\* controller.
NextCtl ==
    \/ \E gap \in FrameGaps, throws \in BOOLEAN, res \in Detections :
          LoadedData(gap, throws, res)
          /\ UNCHANGED <<storeVars, obsVars, loadOutcome, progress, renderVars,
                         treeVars, photoVars>>
    \/ \E gap \in FrameGaps, throws \in BOOLEAN, res \in Detections :
          AnimationFrame(gap, throws, res)
          /\ UNCHANGED <<storeVars, obsVars, loadOutcome, progress, renderVars,
                         treeVars, photoVars>>
    \/ GetUserMediaResolved
          /\ UNCHANGED <<appVars, storeVars, obsVars, loadOutcome, progress,
                         renderVars, treeVars, photoVars>>
    \/ GetUserMediaRejected
          /\ UNCHANGED <<appVars, storeVars, obsVars, loadOutcome, progress,
                         renderVars, treeVars, photoVars>>
    \/ VisionResolved
          /\ UNCHANGED <<appVars, storeVars, obsVars, loadOutcome, progress,
                         renderVars, treeVars, photoVars>>
    \/ LandmarkerCreated
          /\ UNCHANGED <<appVars, storeVars, obsVars, loadOutcome, progress,
                         renderVars, treeVars, photoVars>>
    \/ InitMediaPipeFailed
          /\ UNCHANGED <<appVars, storeVars, obsVars, loadOutcome, progress,
                         renderVars, treeVars, photoVars>>
    \/ Cleanup
          /\ UNCHANGED <<appVars, storeVars, obsVars, loadOutcome, progress,
                         renderVars, treeVars, photoVars>>
    \/ active /\ Toggle
          /\ UNCHANGED <<storeVars, obsVars, loadOutcome, sceneVars>>
    \/ active /\ LoadPhotosDone /\ loadOutcome' = "resolved"
          /\ UNCHANGED <<obsVars, sceneVars>>
    \/ active /\ LoadPhotosFailed /\ loadOutcome' = "rejected"
          /\ UNCHANGED <<obsVars, sceneVars>>

SpecCtl == InitCtl /\ [][NextCtl]_vars

\* Fingertip-to-wrist distances, in hundredths, around every threshold.
DistSamples == {10, 24, 25, 29, 30, 35, 36, 45, 46, 60}

\* The classification of one frame, for any four distances: the part of
\* predictWebcam between the landmarks and the debounce.
ClassifyFrame(tips) ==
    /\ detectedGesture = Unclassified
    /\ results' = << [wrist |-> <<0, 0>>, tips |-> tips] >>
    /\ detectedGesture' = DetectGesture(tips)
    /\ UNCHANGED <<appVars, storeVars, obsVars, loadOutcome, loopVars,
                   lastGesture, gestureDebounce, nowInMs, progress,
                   renderVars, treeVars, photoVars>>

NextClassify ==
    \E index, middle, ring, pinky \in DistSamples :
        ClassifyFrame(<<index, middle, ring, pinky>>)

SpecClassify == InitCtl /\ [][NextClassify]_vars

(* ------------------------- particle transitions ----------------------- *)
\* Frame timesteps (the delta of useFrame) in milliseconds: a regular slow
\* frame and frames after a stall.
DeltaSamples == {100, 1250, 2500}

\* delta * 0.8, delta * 0.6: the lerp factor of a family, in millionths.
LerpFactor(f, delta) ==
    delta * (IF f = "orbiting" THEN RateSlow ELSE RateFast)

\* THREE.MathUtils.lerp(x, y, t) = (1 - t) * x + t * y, t in millionths
Lerp(x, y, t) == ((1000000 - t) * x + t * y) \div 1000000

\* targetProgress = (appState === FORMED || appState === FOCUS) ? 1 : 0
TargetProgress == IF appState \in {"FORMED", "FOCUS"} THEN ProgressUnit ELSE 0

\* Ornaments: const isFormed = appState === AppState.FORMED;
\* const target = isFormed ? item.targetPos : item.chaosPos
OrnamentTarget == IF appState = "FORMED" THEN "targetPos" ELSE "chaosPos"

\* One rendered frame: the useFrame callback of every family runs with the
\* same delta.
Frame(delta) ==
    /\ \A f \in Families :
          /\ progress[f] >= -MaxOvershoot
          /\ progress[f] <= ProgressUnit + MaxOvershoot
    /\ progress' = [f \in Families |->
                      Lerp(progress[f], TargetProgress,
                           LerpFactor(f, delta))]
    /\ UNCHANGED <<appVars, storeVars, obsVars, loadOutcome, ctlVars,
                   renderVars, treeVars, photoVars>>

\* The application with its particle families: gestures and the toggle
\* change the state, frames move every progress toward its target.
NextScene ==
    \/ \E delta \in DeltaSamples : Frame(delta)
    \/ Toggle
          /\ UNCHANGED <<storeVars, obsVars, loadOutcome, sceneVars>>
    \/ \E g \in Gestures : Emit(g)
          /\ UNCHANGED <<storeVars, obsVars, loadOutcome, sceneVars>>
    \/ LoadPhotosDone /\ loadOutcome' = "resolved"
          /\ UNCHANGED <<obsVars, sceneVars>>
    \/ LoadPhotosFailed /\ loadOutcome' = "rejected"
          /\ UNCHANGED <<obsVars, sceneVars>>

\* A first session: the store is empty.
InitEmpty ==
    /\ InitApp
    /\ InitScene
    /\ db = {}
    /\ nextId = 1
    /\ loadPending = TRUE

SpecScene == InitEmpty /\ [][NextScene]_vars

\* The ease without its second branch: 4 t^3 everywhere.
EaseCubicIn(t) == (4 * t * t * t) \div (ProgressUnit * ProgressUnit)

\* float ease = t < 0.5 ? 4.0*t*t*t : 1.0 - pow(-2.0*t + 2.0, 3.0) / 2.0
\* with t and the result in units of 1 / ProgressUnit
Ease(t) ==
    IF 2 * t < ProgressUnit
    THEN (4 * t * t * t) \div (ProgressUnit * ProgressUnit)
    ELSE LET u == 2 * ProgressUnit - 2 * t
         IN  ProgressUnit - ((u * u * u) \div (2 * ProgressUnit * ProgressUnit))

\* GLSL mix(x, y, a) = x * (1 - a) + y * a
Mix(x, y, a) == (x * (ProgressUnit - a) + y * a) \div ProgressUnit

\* The second argument of mix in a family's vertex shader, for the y
\* coordinate in hundredths. The ribbon shader blends toward currentPos: the
\* target moved by sin(..) * 0.05 once uProgress > 0.9; the others blend
\* toward aTargetPos.
BlendTarget(f, part, uProgress) ==
    IF f = "ribbon" /\ 10 * uProgress > 9 * ProgressUnit
    THEN part.target + (part.wave * 5) \div 100
    ELSE part.target

\* main() of a family's vertex shader up to `pos = mix(..)`
VertexShader(f, part, uProgress) ==
    LET ease == Ease(uProgress)
    IN  [ease |-> ease,
         pos |-> Mix(part.chaos, BlendTarget(f, part, uProgress), ease)]

\* Chaos and target y coordinates of a particle, in hundredths.
ChaosSamples == {-700, 300}
TargetSamples == {-200, 500}
\* Values of the sin term of the frame, in hundredths.
WaveSamples == {-100, 0, 100}

\* The vertex shader of family f draws the particle.
Render(f) ==
    /\ shaderOut[f] = <<>>
    /\ shaderOut' = [shaderOut EXCEPT
                        ![f] = <<VertexShader(f, particle, progress[f])>>]
    /\ UNCHANGED <<appVars, storeVars, obsVars, loadOutcome, ctlVars,
                   progress, particle, treeVars, photoVars>>

\* Any progress in [0, 1] and any sampled particle, before drawing.
InitBlend ==
    /\ InitApp
    /\ db = {}
    /\ nextId = 1
    /\ loadPending = TRUE
    /\ \E p \in 0..ProgressUnit : progress = [f \in Families |-> p]
    /\ particle \in [chaos : ChaosSamples, target : TargetSamples,
                     wave : WaveSamples]
    /\ shaderOut = [f \in Families |-> <<>>]

NextBlend == \E f \in Families : Render(f)

SpecBlend == InitBlend /\ [][NextBlend]_vars

(* ------------------------- rotation controller ------------------------- *)
\* Angles and the angular velocity are in hundredths; delta is in
\* milliseconds; pointer positions are in pixels.
TickSamples == {100, 200}
PointerXs == {0, 1}

Abs(x) == IF x < 0 THEN -x ELSE x

\* x * num / den, rounded toward zero
Scaled(x, num, den) ==
    IF x * num >= 0 THEN (x * num) \div den ELSE -((-(x * num)) \div den)

\* handlePointerDown
PointerDown(x) ==
    /\ isDragging' = TRUE
    /\ lastPointerX' = x
    /\ UNCHANGED <<angularVelocity, rotationY>>

\* handlePointerUp, also bound to onPointerLeave
PointerUp ==
    /\ isDragging' = FALSE
    /\ UNCHANGED <<angularVelocity, lastPointerX, rotationY>>

\* handlePointerMove: returns at once unless a drag is in progress
PointerMove(x) ==
    /\ isDragging
    /\ LET deltaX == x - lastPointerX
       IN  /\ lastPointerX' = x
           /\ angularVelocity' =
                 IF ViewportWidth > 0
                 THEN angularVelocity
                         + Scaled(deltaX, DragGain * 100, ViewportWidth)
                 ELSE angularVelocity
    /\ Abs(angularVelocity') <= MaxVelocity
    /\ UNCHANGED <<isDragging, rotationY>>

\* const targetRotY = (handRotation.x - 0.5) * Math.PI * 2
TargetRotY(hand) == Scaled(2 * hand[1] - 1, TwoPi, 2)

\* The hand-control branch without the reset of the velocity.
HandControlKeepsVelocity(delta) ==
    /\ rotationY' = Lerp(rotationY, TargetRotY(handRotation),
                         delta * HandRate * 1000)
    /\ UNCHANGED angularVelocity

\* HAND CONTROL MODE: rotation.y is smoothed toward the hand's target;
\* angularVelocity.current = 0; currentRotationY.current = rotation.y
HandControl(delta) ==
    /\ rotationY' = Lerp(rotationY, TargetRotY(handRotation),
                         delta * HandRate * 1000)
    /\ angularVelocity' = 0

\* angularVelocity.current *= 0.95
Decay(v) == Scaled(v, DecayPercent, 100)

\* The idle test without FOCUS among its states.
IsIdleOutsideFocus(v) ==
    /\ appState \in {"FORMED", "CHAOS"}
    /\ ~isDragging
    /\ Abs(v) < IdleEpsilon

\* (appState === FORMED || appState === CHAOS || appState === FOCUS)
\*   && !isDragging.current && Math.abs(angularVelocity.current) < 0.05
IsIdle(v) ==
    /\ appState \in {"FORMED", "CHAOS", "FOCUS"}
    /\ ~isDragging
    /\ Abs(v) < IdleEpsilon

\* angularVelocity.current * delta * 10, and delta * 0.1
Spin(v, delta) == Scaled(v, delta * Amplification, 1000)
IdleDrift(delta) == Scaled(delta, IdleDriftRate, 1000)

\* PHYSICS/MOUSE MODE: integrate, decay, drift when idle; currentRotationY
\* is never NaN here, so rotation.y always takes it.
PhysicsMode(delta) ==
    /\ angularVelocity' = Decay(angularVelocity)
    /\ rotationY' = rotationY + Spin(angularVelocity, delta)
                       + (IF IsIdle(angularVelocity') THEN IdleDrift(delta)
                          ELSE 0)

\* The useFrame callback of TreeGroup; groupRef.current is the mounted group.
TreeFrame(delta) ==
    /\ IF handRotation # NoHand THEN HandControl(delta)
       ELSE PhysicsMode(delta)
    /\ Abs(rotationY') <= MaxRotation
    /\ UNCHANGED <<isDragging, lastPointerX>>
    /\ UNCHANGED <<appVars, storeVars, obsVars, loadOutcome, ctlVars,
                   progress, renderVars, photoVars>>

\* The tree of a first session (no photos) under pointer, hand and gesture
\* input.
NextSpin ==
    \/ \E delta \in TickSamples : TreeFrame(delta)
    \/ \E x \in PointerXs : PointerDown(x)
          /\ UNCHANGED <<appVars, storeVars, obsVars, loadOutcome, ctlVars,
                         progress, renderVars, photoVars>>
    \/ PointerUp
          /\ UNCHANGED <<appVars, storeVars, obsVars, loadOutcome, ctlVars,
                         progress, renderVars, photoVars>>
    \/ \E x \in PointerXs : PointerMove(x)
          /\ UNCHANGED <<appVars, storeVars, obsVars, loadOutcome, ctlVars,
                         progress, renderVars, photoVars>>
    \/ \E hand \in HandSamples : HandleHandMove(hand[1], hand[2])
          /\ UNCHANGED <<storeVars, obsVars, loadOutcome, sceneVars>>
    \/ \E g \in Gestures : Emit(g)
          /\ UNCHANGED <<storeVars, obsVars, loadOutcome, sceneVars>>
    \/ Toggle
          /\ UNCHANGED <<storeVars, obsVars, loadOutcome, sceneVars>>

SpecSpin == InitEmpty /\ [][NextSpin]_vars

\* The same tree while no hand is tracked (the gesture controller never
\* reports a hand position): pointer-drag mode throughout.
NextDrag ==
    \/ \E delta \in TickSamples : TreeFrame(delta)
    \/ \E x \in PointerXs : PointerDown(x)
          /\ UNCHANGED <<appVars, storeVars, obsVars, loadOutcome, ctlVars,
                         progress, renderVars, photoVars>>
    \/ PointerUp
          /\ UNCHANGED <<appVars, storeVars, obsVars, loadOutcome, ctlVars,
                         progress, renderVars, photoVars>>
    \/ \E x \in PointerXs : PointerMove(x)
          /\ UNCHANGED <<appVars, storeVars, obsVars, loadOutcome, ctlVars,
                         progress, renderVars, photoVars>>
    \/ \E g \in Gestures : Emit(g)
          /\ UNCHANGED <<storeVars, obsVars, loadOutcome, sceneVars>>
    \/ Toggle
          /\ UNCHANGED <<storeVars, obsVars, loadOutcome, sceneVars>>

\* The render loop calls the frame callback on every animation frame.
SpecDrag ==
    /\ InitEmpty
    /\ [][NextDrag]_vars
    /\ WF_vars(\E delta \in TickSamples : TreeFrame(delta))

(* ------------------------------ photo view ----------------------------- *)
\* One coordinate of a photo's chaosPos and targetPos, in tenths, and the
\* local targets that worldToLocal yields as the parent rotates.
PhotoSample == [chaosPos |-> 0, targetPos |-> 10]
LocalTargets == {20, 25}
\* Frame timesteps in milliseconds: a slow frame and a stalled frame.
PhotoDeltas == {100, 400}

\* const isFormed = appState === FORMED || appState === FOCUS
IsFormed == appState \in {"FORMED", "FOCUS"}

\* The body of the component at the latest render: an empty map is filled
\* with the chaos position of every photo.
RenderedPositions ==
    IF DOMAIN currentPositions = {} /\ Len(photos) > 0
    THEN [id \in {photos[i].id : i \in 1..Len(photos)} |->
             PhotoSample.chaosPos]
    ELSE currentPositions

\* child.scale.x of a photo's group: <group key={photo.id} scale={0}> when
\* it has just been created.
ScaleOf(id) == IF id \in DOMAIN childScale THEN childScale[id] ELSE 0

\* if (featuredPhotoId) { if (photo.id === featuredPhotoId) ... }
IsFeatured(id) == featuredPhotoId # Null /\ id = featuredPhotoId

TargetPos(id, localTarget) ==
    IF IsFeatured(id) THEN localTarget
    ELSE IF IsFormed THEN PhotoSample.targetPos ELSE PhotoSample.chaosPos

TargetScale(id) ==
    IF featuredPhotoId # Null
    THEN IF IsFeatured(id) THEN FeaturedScale ELSE 0
    ELSE NormalScale

\* child.scale.x > (targetScale * 0.9)
SnapLock(id) == 10 * ScaleOf(id) > LockTenths * TargetScale(id)

\* POSITION LOGIC of one photo that has a current position
NextPosition(id, pos, localTarget, delta) ==
    IF IsFeatured(id)
    THEN IF SnapLock(id) THEN TargetPos(id, localTarget)
         ELSE Lerp(pos, TargetPos(id, localTarget),
                   delta * ApproachRate * 1000)
    ELSE Lerp(pos, TargetPos(id, localTarget), delta * MoveRate * 1000)

\* SCALE LOGIC
NextScale(id, delta) ==
    Lerp(ScaleOf(id), TargetScale(id), delta * ScaleRate * 1000)

\* The useFrame callback of PhotosWithStrings; the group exists only while
\* there are photos. A photo without a current position gets its chaos
\* position and is skipped for this frame.
PhotoFrame(delta, localTarget) ==
    LET ids == {photos[i].id : i \in 1..Len(photos)}
        positions == RenderedPositions
    IN  /\ Len(photos) > 0
        /\ currentPositions' =
              [id \in DOMAIN positions \cup ids |->
                 IF id \notin ids THEN positions[id]
                 ELSE IF id \notin DOMAIN positions
                      THEN PhotoSample.chaosPos
                      ELSE NextPosition(id, positions[id], localTarget,
                                        delta)]
        /\ childScale' =
              [id \in ids |->
                 IF id \notin DOMAIN positions THEN ScaleOf(id)
                 ELSE NextScale(id, delta)]
        /\ \A id \in ids : Abs(currentPositions'[id]) <= MaxPosition
        /\ UNCHANGED <<appVars, storeVars, obsVars, loadOutcome, ctlVars,
                       progress, renderVars, treeVars>>

\* One stored photo: it is loaded, gestures feature and release it, frames
\* animate it.
InitFocus ==
    /\ InitApp
    /\ InitScene
    /\ db = {[id |-> 1, timestamp |-> 1]}
    /\ nextId = 2
    /\ loadPending = TRUE

NextFocus ==
    \/ \E delta \in PhotoDeltas, localTarget \in LocalTargets :
          PhotoFrame(delta, localTarget)
    \/ \E g \in Gestures : Emit(g)
          /\ UNCHANGED <<storeVars, obsVars, loadOutcome, sceneVars>>
    \/ LoadPhotosDone /\ loadOutcome' = "resolved"
          /\ UNCHANGED <<obsVars, sceneVars>>

SpecFocus == InitFocus /\ [][NextFocus]_vars

(* ------------------------------- claims -------------------------------- *)
\* A step in which gesture g is delivered to handleGesture.
Emitted(g) == gestureStatus # g /\ gestureStatus' = g

\* A step of the assemble / release button: the application state changes
\* while no gesture is delivered and the collection and the store stay put.
Toggled ==
    /\ appState' # appState
    /\ UNCHANGED <<gestureStatus, photos, storeVars>>

\* A step in which removal `op` completes: it leaves the suspended handlers
\* and its delete has taken effect in the store.
RemovalCompleted(op) ==
    /\ op \in pending
    /\ op.kind = "remove"
    /\ pending' = pending \ {op}
    /\ InStore(db, op.id)
    /\ ~InStore(db', op.id)

\* Index of id in a sequence of ids (0 when absent).
IndexOf(seq, id) ==
    IF Includes(seq, id) THEN CHOOSE i \in 1..Len(seq) : seq[i] = id ELSE 0

\* The fraction t equals 0.15 + (i / (n - 1)) * 0.7 (0.5 when n = 1), i 0-based.
IsParamOf(t, i, n) ==
    IF n > 1
    THEN t[1] * (100 * (n - 1)) = (15 * (n - 1) + 70 * i) * t[2]
    ELSE t[1] * 2 = t[2]

\* C1: in every reachable state, if the application state is FOCUS then the
\* featured-photo identifier is non-null.
C1_FocusHasFeatured == appState = "FOCUS" => featuredPhotoId # Null

\* C2: in every reachable state where the application state is CHAOS or
\* FORMED, the featured-photo identifier is null.
C2_OutsideFocusNothingFeatured ==
    appState \in {"CHAOS", "FORMED"} => featuredPhotoId = Null

\* C3: a POINT gesture received while the live collection is empty leaves the
\* application state, the featured photo and the history as they were.
C3_PointOnEmptyCollection ==
    [][(Len(photos) = 0 /\ Emitted("POINT"))
          => UNCHANGED <<appState, featuredPhotoId, recentPhotos>>]_vars

\* C4: the toggle switches CHAOS to FORMED and FORMED to CHAOS, leaves FOCUS
\* in FOCUS, and never changes the history.
C4_ToggleSparesFocus ==
    [][Toggled =>
          /\ appState = "CHAOS" => appState' = "FORMED"
          /\ appState = "FORMED" => appState' = "CHAOS"
          /\ (appState = "FOCUS" /\ featuredPhotoId # Null)
                => appState' = "FOCUS"
          /\ recentPhotos' = recentPhotos]_vars

\* C5: a POINT received outside FOCUS with at least one photo features a photo
\* of the live collection chosen by the two-tier rule: a photo absent from the
\* history when there is one; otherwise, with two or more photos, a photo other
\* than the newest history entry; with exactly one photo, that photo.
C5_TwoTierSelection ==
    [][(appState # "FOCUS" /\ Len(photos) > 0 /\ Emitted("POINT")) =>
          /\ appState' = "FOCUS"
          /\ Includes(Ids(photos), featuredPhotoId')
          /\ (\E i \in 1..Len(photos) : ~Includes(recentPhotos, photos[i].id))
                => ~Includes(recentPhotos, featuredPhotoId')
          /\ ((\A i \in 1..Len(photos) : Includes(recentPhotos, photos[i].id))
                /\ Len(photos) >= 2)
                => featuredPhotoId' # recentPhotos[Len(recentPhotos)]
          /\ Len(photos) = 1 => featuredPhotoId' = photos[1].id]_vars

\* The second tier was used: the featured photo, newest in the history, had
\* been featured before while another photo was available.
C5_Witness ==
    /\ appState = "FOCUS"
    /\ Len(photos) >= 2
    /\ Len(recentPhotos) >= 3
    /\ featuredPhotoId = recentPhotos[Len(recentPhotos)]
    /\ \E i \in 1..(Len(recentPhotos) - 1) : recentPhotos[i] = featuredPhotoId
    /\ \A i \in 1..Len(photos) : Includes(recentPhotos, photos[i].id)

\* C6 as stated: after 6 or more POINT selections with at least 2 photos
\* available, no photo id appears twice among the last 5 selections.
C6_NoRepeatWithTwoPhotos ==
    (selCount >= 6 /\ Len(photos) >= 2) => NoDup(lastSelected)

\* C6 amended: after 6 or more POINT selections with at least 6 photos
\* available (more than the history holds), no photo id appears twice among
\* the last 5 selections.
C6_NoRepeatWithSixPhotos ==
    (selCount >= 6 /\ Len(photos) >= 6)
        => (Len(lastSelected) = 5 /\ NoDup(lastSelected))

C6_Witness ==
    /\ selCount >= 6
    /\ Len(photos) >= 6
    /\ Len(lastSelected) = 5
    /\ appState = "FOCUS"

\* C7: the history never holds more than 5 identifiers, and each POINT
\* selection appends the selected id as the newest entry, dropping exactly
\* the oldest entry when the length would exceed 5 and keeping the others in
\* order.
C7_HistoryIsBoundedFifo ==
    /\ [](Len(recentPhotos) <= 5)
    /\ [][(appState # "FOCUS" /\ Len(photos) > 0 /\ Emitted("POINT")) =>
             recentPhotos' =
                IF Len(recentPhotos) + 1 > 5
                THEN SubSeq(recentPhotos, 2, Len(recentPhotos))
                        \o <<featuredPhotoId'>>
                ELSE recentPhotos \o <<featuredPhotoId'>>]_vars

\* A sixth selection has been pushed onto a full history.
C7_Witness ==
    /\ selCount >= 6
    /\ Len(recentPhotos) = 5
    /\ recentPhotos = lastSelected
    /\ Len(photos) >= 2

\* C8: from any state, OPEN ends in CHAOS and FIST ends in FORMED, both with
\* no featured photo, and neither changes the history or the collection.
C8_OpenAndFistAreUnconditional ==
    [][/\ Emitted("OPEN") =>
             /\ appState' = "CHAOS"
             /\ featuredPhotoId' = Null
             /\ UNCHANGED <<recentPhotos, photos>>
       /\ Emitted("FIST") =>
             /\ appState' = "FORMED"
             /\ featuredPhotoId' = Null
             /\ UNCHANGED <<recentPhotos, photos>>]_vars

\* OPEN was delivered after a photo had been featured.
C8_Witness ==
    /\ gestureStatus = "OPEN"
    /\ appState = "CHAOS"
    /\ featuredPhotoId = Null
    /\ Len(recentPhotos) > 0
    /\ handRotation = NoHand

\* C9: a POINT gesture received in FOCUS changes neither the application
\* state, nor the featured photo, nor the history, nor the hand rotation.
C9_PointInFocusIsNoOp ==
    [][(appState = "FOCUS" /\ Emitted("POINT"))
          => UNCHANGED <<appState, featuredPhotoId, recentPhotos,
                         handRotation>>]_vars

\* FOCUS on a featured photo, with POINT the gesture delivered last.
C9_Witness ==
    /\ appState = "FOCUS"
    /\ gestureStatus = "POINT"
    /\ featuredPhotoId # Null
    /\ Includes(Ids(photos), featuredPhotoId)
    /\ Len(photos) >= 2

\* C10: when a removal completes, the removed id is in neither the live
\* collection nor the history, the photos of the collection are in the order
\* they had before, each with the curve parameter of its rank among the new
\* count, and the application state is unchanged.
C10_RemovalCompletes ==
    [][\A op \in pending : RemovalCompleted(op) =>
          /\ ~Includes(Ids(photos'), op.id)
          /\ ~Includes(recentPhotos', op.id)
          /\ \A i, j \in 1..Len(photos') :
                (/\ i < j
                 /\ Includes(Ids(photos), photos'[i].id)
                 /\ Includes(Ids(photos), photos'[j].id))
                => IndexOf(Ids(photos), photos'[i].id)
                      < IndexOf(Ids(photos), photos'[j].id)
          /\ \A i \in 1..Len(photos') :
                IsParamOf(photos'[i].t, i - 1, Len(photos'))
          /\ appState' = appState]_vars

\* A photo that was featured has been removed: it is gone from the store, the
\* collection and the history, and two photos remain.
C10_Witness ==
    \E id \in 1..MaxPhotos :
        /\ id < nextId
        /\ featuredPhotoId = id
        /\ ~InStore(db, id)
        /\ ~Includes(Ids(photos), id)
        /\ ~Includes(recentPhotos, id)
        /\ Len(photos) >= 2
        /\ pending = {}

(* ------------------------ upload, store, startup ----------------------- *)
\* The step on which a suspended upload completes: every put succeeded.
UploadCompleted(op) ==
    /\ op \in pending
    /\ op.kind = "upload"
    /\ pending' = pending \ {op}
    /\ \A i \in 1..Len(op.new) : InStore(db', op.new[i])

\* The step on which a suspended upload or removal ends in a failed put or
\* delete.
ActionFailed(op) ==
    /\ op \in pending
    /\ pending' = pending \ {op}
    /\ \/ /\ op.kind = "upload"
          /\ \E i \in 1..Len(op.new) : ~InStore(db', op.new[i])
       \/ /\ op.kind = "remove"
          /\ InStore(db', op.id)

\* The live photos carry the curve parameters of their ranks among Len(ps).
PositionsFor(ps) == \A i \in 1..Len(ps) : IsParamOf(ps[i].t, i - 1, Len(ps))

\* C11: every upload that completes ends in FORMED with the live collection
\* equal to the photos live at completion followed by the uploaded ones, all
\* with positions recomputed for the full count.
C11_UploadAppendsToLive ==
    [][\A op \in pending :
          UploadCompleted(op) =>
             /\ appState' = "FORMED"
             /\ Ids(photos') = Ids(photos) \o op.new
             /\ PositionsFor(photos')]_vars

\* C12: a photo enters the live collection only once it is stored and leaves
\* it only once it is deleted from the store; a failed put or delete leaves
\* the live collection, the history and the application state as they were.
C12_LiveFollowsStore ==
    [][/\ \A id \in 1..MaxPhotos :
             /\ (~Includes(Ids(photos), id) /\ Includes(Ids(photos'), id))
                   => InStore(db', id)
             /\ (Includes(Ids(photos), id) /\ ~Includes(Ids(photos'), id))
                   => ~InStore(db', id)
       /\ \A op \in pending :
             ActionFailed(op)
                => UNCHANGED <<photos, recentPhotos, appState>>]_vars

\* The photos of `ps` are exactly the stored ones, oldest first.
InStoredOrder(ps, store) ==
    /\ NoDup(Ids(ps))
    /\ {ps[i].id : i \in 1..Len(ps)} = {r.id : r \in store}
    /\ \A i, j \in 1..Len(ps) :
          i < j => \A r, q \in store :
                      (r.id = ps[i].id /\ q.id = ps[j].id)
                         => r.timestamp <= q.timestamp

\* The application before the startup load has ended and before any input.
Started ==
    /\ appState = "CHAOS"
    /\ photos = <<>>
    /\ featuredPhotoId = Null

\* C13: the application starts in CHAOS with no photos and nothing featured;
\* a startup load that returns photos makes the state FORMED with exactly
\* those photos in the returned order; one that returns none or fails changes
\* neither the state nor the collection.
C13_StartupLoad ==
    /\ Started
    /\ [][(loadPending /\ ~loadPending') =>
             /\ (loadOutcome' = "resolved" /\ db # {}) =>
                   /\ appState' = "FORMED"
                   /\ InStoredOrder(photos', db)
             /\ (loadOutcome' = "rejected" \/ db = {}) =>
                   /\ UNCHANGED <<appState, photos, featuredPhotoId>>
                   /\ Started => Started']_vars

\* The load returned two photos and nothing else has happened.
C13_Witness ==
    /\ loadOutcome = "resolved"
    /\ appState = "FORMED"
    /\ Len(photos) = 2
    /\ nextId = 3
    /\ pending = {}
    /\ gestureStatus = "NONE"
    /\ handRotation = NoHand

(* -------------------------- gesture controller ------------------------- *)
\* A call of predictWebcam classified the hand it saw.
FrameClassified == nowInMs' # nowInMs /\ detectedGesture' # Unclassified

\* That call passed its gesture to onGesture.
FrameEmitted == lastGesture' # lastGesture /\ lastGesture' = detectedGesture'

\* C14: a classified gesture is emitted exactly when it differs from the
\* gesture emitted last and at least 150 ms have passed since that emission,
\* exactly 150 ms included.
C14_DebounceAtLeast150 ==
    [][FrameClassified =>
          (FrameEmitted <=> /\ detectedGesture' # lastGesture
                            /\ nowInMs' - gestureDebounce >= 150)]_vars

\* C16: while the latest frame produced no landmarks, the rotation controller
\* is given no hand position.
C16_NoHandNoOverride == results = NoLandmarks => handRotation = NoHand

\* A POINT emitted outside FOCUS over a non-empty collection.
PointSelection ==
    /\ FrameEmitted
    /\ lastGesture' = "POINT"
    /\ appState # "FOCUS"
    /\ Len(photos) > 0

\* C17: the POINT selection that enters FOCUS clears the hand-rotation
\* override, and no step that stays in FOCUS sets it again.
C17_FocusHasNoOverride ==
    [][/\ PointSelection => (appState' = "FOCUS" /\ handRotation' = NoHand)
       /\ (appState = "FOCUS" /\ appState' = "FOCUS" /\ handRotation = NoHand)
             => handRotation' = NoHand]_vars

\* In FOCUS after a selection, a later frame saw a hand and the override is
\* still absent.
C17_Witness ==
    /\ appState = "FOCUS"
    /\ featuredPhotoId # Null
    /\ lastGesture = "POINT"
    /\ results # NoLandmarks
    /\ nowInMs > gestureDebounce
    /\ handRotation = NoHand

\* C15: the classified gesture is FIST when the average of the four distances
\* is below 0.25; otherwise POINT when the index distance exceeds 0.35 and
\* the other three are each below 0.3; otherwise OPEN when the average
\* exceeds 0.45; otherwise NONE.
C15_ClassificationPriority ==
    detectedGesture # Unclassified =>
       LET d == results[1].tips
           fourTimesAverage == d[1] + d[2] + d[3] + d[4]
       IN  detectedGesture =
              IF fourTimesAverage < 100 THEN "FIST"
              ELSE IF d[1] > 35 /\ d[2] < 30 /\ d[3] < 30 /\ d[4] < 30
                   THEN "POINT"
              ELSE IF fourTimesAverage > 180 THEN "OPEN"
              ELSE "NONE"

\* A hand that meets both the FIST and the POINT condition is a FIST.
C15_Witness ==
    /\ detectedGesture = "FIST"
    /\ results[1].tips = <<36, 10, 10, 10>>

\* C19: once the gesture loop is stopped, whenever that happened, no camera
\* stream is left open and no call of predictWebcam is scheduled.
C19_StopReleasesCamera ==
    ~active => (camera # "streaming" /\ ~scheduled)

(* ------------------------- particle transitions ------------------------ *)
\* C18: the progress scalar of every family is within [0, 1] after every
\* frame, whatever the application states and timesteps.
C18_ProgressWithinUnit ==
    \A f \in Families : progress[f] >= 0 /\ progress[f] <= ProgressUnit

FracLess(a, b) == a[1] * b[2] < b[1] * a[2]
FracIs(a, num, den) == a[1] * den = num * a[2]

\* C21: the i-th of N live photos (0-based) has curve parameter
\* 0.15 + (i / (N - 1)) * 0.7 when N > 1 and 0.5 when N = 1, so the parameters
\* increase strictly with i and lie in [0.15, 0.85]; a removal that completes
\* on three live photos leaves exactly two, at 0.15 and 0.85.
C21_CurveParameters ==
    /\ [](/\ PositionsFor(photos)
          /\ \A i, j \in 1..Len(photos) :
                i < j => FracLess(photos[i].t, photos[j].t)
          /\ \A i \in 1..Len(photos) :
                /\ ~FracLess(photos[i].t, <<15, 100>>)
                /\ ~FracLess(<<85, 100>>, photos[i].t))
    /\ [][\A op \in pending :
             (RemovalCompleted(op) /\ Len(photos) = 3
                /\ Ids(photos) = op.base)
                => /\ Len(photos') = 2
                   /\ FracIs(photos'[1].t, 15, 100)
                   /\ FracIs(photos'[2].t, 85, 100)]_vars

\* Three photos were stored, all three were live, and one has been removed.
C21_Witness ==
    /\ Len(photos) = 2
    /\ FracIs(photos[1].t, 15, 100)
    /\ FracIs(photos[2].t, 85, 100)
    /\ nextId = 4
    /\ Cardinality(db) = 2
    /\ pending = {}

(* ------------------------- rotation controller ------------------------- *)
\* A step of the frame callback: the rotation or the velocity changes while
\* the pointer refs and the application state stay as they are.
FrameRan ==
    /\ <<angularVelocity, rotationY>>' # <<angularVelocity, rotationY>>
    /\ UNCHANGED <<isDragging, lastPointerX, appVars>>

\* C22: every frame processed while a hand pose sample is present ends with
\* angular velocity zero, and its rotation is the smoothing toward the hand's
\* target alone: whatever velocity a drag had built up is not applied.
C22_HandFrameZeroesVelocity ==
    [][(FrameRan /\ handRotation # NoHand)
          => /\ angularVelocity' = 0
             /\ \E delta \in TickSamples :
                   rotationY' = Lerp(rotationY, TargetRotY(handRotation),
                                     delta * HandRate * 1000)]_vars

\* A hand frame has run while a drag is in progress.
C22_Witness ==
    /\ handRotation # NoHand
    /\ isDragging
    /\ lastPointerX # 0
    /\ angularVelocity = 0
    /\ rotationY # 0

\* The rotation that the decay from the largest velocity down to the idle
\* epsilon adds at the longest timestep: the sum of 2 v for v from
\* IdleEpsilon to MaxVelocity.
DecayRoom ==
    MaxVelocity * (MaxVelocity + 1) - IdleEpsilon * (IdleEpsilon - 1)

\* C25: a frame in pointer-drag mode adds angularVelocity * dt * 10 to
\* rotationY and then multiplies the velocity by 0.95; while no drag is in
\* progress the magnitude of the velocity shrinks on every frame until it is
\* below the idle epsilon, which it eventually is, and a frame that ends idle
\* also adds the constant drift dt * 0.1, whatever the application state.
C25_DecayThenDrift ==
    /\ [][(FrameRan /\ handRotation = NoHand)
             => /\ 100 * Abs(angularVelocity') <= 95 * Abs(angularVelocity)
                /\ 100 * Abs(angularVelocity') > 95 * Abs(angularVelocity) - 100
                /\ angularVelocity # 0 =>
                      Abs(angularVelocity') < Abs(angularVelocity)
                /\ \E delta \in TickSamples :
                      rotationY' - rotationY
                         = Scaled(angularVelocity, delta * 10, 1000)
                           + (IF ~isDragging /\ Abs(angularVelocity') < 5
                              THEN Scaled(delta, 10, 1000) ELSE 0)]_vars
    /\ (/\ handRotation = NoHand
        /\ ~isDragging
        /\ Abs(rotationY) + DecayRoom <= MaxRotation)
          ~> (\/ Abs(angularVelocity) < IdleEpsilon
              \/ isDragging
              \/ handRotation # NoHand)

\* In FOCUS, after a drag has ended and its momentum has decayed below the
\* epsilon, the tree drifts.
C25_Witness ==
    /\ appState = "FOCUS"
    /\ handRotation = NoHand
    /\ ~isDragging
    /\ lastPointerX # 0
    /\ angularVelocity # 0
    /\ Abs(angularVelocity) < IdleEpsilon
    /\ rotationY > MaxVelocity

(* ----------------------- gesture loop, continued ----------------------- *)
\* A step in which an await of initMediaPipe ends without its result.
InitFailed ==
    /\ model \in {"resolving", "creating"}
    /\ model' \notin {model, "creating", "ready", "abandoned"}

\* C23: once the initialization of the landmarker has failed it stays failed
\* (no retry), no gesture and no hand position is delivered afterwards, and
\* the rotation controller has no hand override for the rest of the run.
C23_FailedInitStaysInactive ==
    /\ [][InitFailed => model' = "failed"]_vars
    /\ [][model = "failed"
             => /\ model' = "failed"
                /\ UNCHANGED <<lastGesture, gestureDebounce, gestureStatus,
                               handRotation>>]_vars
    /\ [](model = "failed"
             => /\ handRotation = NoHand
                /\ lastGesture = "NONE"
                /\ gestureStatus = "NONE"
                /\ detectedGesture = Unclassified)

\* The initialization has failed and predictWebcam keeps being called.
C23_Witness ==
    /\ model = "failed"
    /\ active
    /\ dataLoaded
    /\ scheduled
    /\ nowInMs >= MountTime + 150
    /\ handRotation = NoHand

\* A call of predictWebcam.
PredictStep == nowInMs' # nowInMs

\* C24: while the loop is not stopped, every call of predictWebcam requests
\* the next one, whether the landmarker is not ready, detectForVideo throws,
\* no hand is found or a gesture is classified.
C24_EveryFrameSchedulesNext ==
    [][(PredictStep /\ active) => scheduled']_vars

\* A frame classified a gesture after the first emission, and the next call
\* is requested.
C24_Witness ==
    /\ active
    /\ scheduled
    /\ detectedGesture = "POINT"
    /\ lastGesture = "FIST"
    /\ model = "ready"

\* C30: a frame that classifies a gesture different from the last emitted one
\* emits it if and only if more than 150 ms have passed since the last
\* emission, so a gesture that persists is emitted at the first frame past
\* the debounce; an emission never repeats the gesture emitted last.
C30_DebounceDelaysNeverDrops ==
    [][/\ (FrameClassified /\ detectedGesture' # lastGesture)
             => (nowInMs' - gestureDebounce > 150
                   <=> /\ lastGesture' = detectedGesture'
                       /\ gestureDebounce' = nowInMs'
                       /\ gestureStatus' = detectedGesture')
       /\ (FrameClassified /\ detectedGesture' = lastGesture)
             => UNCHANGED <<lastGesture, gestureDebounce, gestureStatus>>
       /\ lastGesture' # lastGesture
             => (FrameClassified /\ lastGesture' = detectedGesture')]_vars

\* A gesture held through the debounce has been emitted: the last emission
\* is later than the first one and the frame before it could not emit.
C30_Witness ==
    /\ lastGesture = "POINT"
    /\ gestureStatus = "POINT"
    /\ detectedGesture = "POINT"
    /\ gestureDebounce = nowInMs
    /\ gestureDebounce >= MountTime + 250

(* ------------------------ overlapping handlers ------------------------- *)
\* The ids of the records of the store.
StoredIds(store) == {r.id : r \in store}

\* C27: once every upload and removal that was started has run to completion,
\* the live collection holds exactly the photos of the persistent store.
C27_LiveEqualsStoreAfterOverlap ==
    (~loadPending /\ pending = {})
       => /\ NoDup(Ids(photos))
          /\ {photos[i].id : i \in 1..Len(photos)} = StoredIds(db)

\* C28: a featured-photo identifier that is not null is the id of a photo of
\* the live collection.
C28_FeaturedIsLive ==
    featuredPhotoId # Null => Includes(Ids(photos), featuredPhotoId)

(* ------------------------------ photo view ----------------------------- *)
\* A frame of the photo view that leaves the same photo featured.
FeaturedFrame ==
    /\ featuredPhotoId # Null
    /\ Includes(Ids(photos), featuredPhotoId)
    /\ featuredPhotoId \in DOMAIN RenderedPositions
    /\ UNCHANGED appVars
    /\ <<currentPositions, childScale>>' # <<currentPositions, childScale>>

\* The displayed scale of the featured photo is above 90% of 3.0.
PastThreshold(scale) == 10 * scale > 9 * 30

\* C26: while a photo stays featured, a frame that finds its displayed scale
\* at most 90% of 3.0 smooths its position toward the local target of that
\* frame, a frame that finds the scale above the threshold leaves the
\* position equal to that local target, and a scale that is above the
\* threshold stays above it: the approach phase does not return.
C26_LockedPhaseIsFinal ==
    [][FeaturedFrame =>
          LET id == featuredPhotoId
              pos == RenderedPositions[id]
          IN  /\ ~PastThreshold(ScaleOf(id)) =>
                    \E delta \in PhotoDeltas, localTarget \in LocalTargets :
                        currentPositions'[id]
                           = Lerp(pos, localTarget, delta * 6000)
              /\ PastThreshold(ScaleOf(id)) =>
                    /\ currentPositions'[id] \in LocalTargets
                    /\ PastThreshold(childScale'[id])]_vars

\* C29: in every application state the particle families and the ornaments
\* are driven toward the same configuration, formed exactly in FORMED and
\* FOCUS and chaos exactly in CHAOS.
C29_SameConfiguration ==
    /\ TargetProgress = ProgressUnit <=> appState \in {"FORMED", "FOCUS"}
    /\ TargetProgress = 0 <=> appState = "CHAOS"
    /\ OrnamentTarget = "targetPos" <=> appState \in {"FORMED", "FOCUS"}
    /\ OrnamentTarget = "chaosPos" <=> appState = "CHAOS"
====
